---- MODULE Spec2Model ----
(***************************************************************************)
(* The in-memory users service: the package-level slice `users`, the two   *)
(* HTTP handlers getUsersHandler and createUserHandler, and insertUser.    *)
(* net/http serves every request on its own goroutine, and nothing         *)
(* synchronises the accesses to `users`.  Two specifications are given:    *)
(*   Spec      requests are handled one at a time (a request starts only   *)
(*             when no other handler is running);                          *)
(*   SpecConc  handlers interleave statement by statement, and a read of   *)
(*             `users` that races with an append in flight returns any of  *)
(*             the values the race can produce.                            *)
(***************************************************************************)
EXTENDS Integers, Sequences, FiniteSets, TLC

\* ---------------------------------------------------------------- bounds
NumHandlers == 2
NumEmails == 3
NumNames == 1
\* records stored plus creates running, when handlers interleave
MaxUsers == 2
\* failed requests in a row that are counted
MaxStreak == 2

EmailPool == <<"a@b.com", "A@b.com", "x@y.com", "john@example.com", "j@d.org">>
NamePool == <<"John Doe", "A", "B", "C">>

Min(a, b) == IF a < b THEN a ELSE b

Handlers == 1..NumHandlers
Emails == {""} \cup {EmailPool[i] : i \in 1..Min(NumEmails, Len(EmailPool))}
Names == {""} \cup {NamePool[i] : i \in 1..Min(NumNames, Len(NamePool))}
\* ids a client may put in the request body
ClientIDs == {0, 7}

\* ------------------------------------------------------------ data model
\* type User struct { ID int; Name string; Email string }
User(id, name, email) == [ID |-> id, Name |-> name, Email |-> email]

\* `var payload User`: every field holds its zero value
ZeroUser == User(0, "", "")

\* HTTP status codes used by the handlers
StatusOK == 200
StatusCreated == 201
StatusBadRequest == 400
StatusInternalServerError == 500

\* Request bodies: text that is not JSON, or a JSON object holding any
\* subset of the keys "id", "name", "email".
MalformedBodies == {"", "{"}
JSONKeys == {"id", "name", "email"}
ObjectBodies == [keys : SUBSET JSONKeys, id : ClientIDs \ {0},
                 name : Names, email : Emails]

\* json.NewDecoder(r.Body).Decode(&payload): a key of the object sets the
\* field its tag names, a key that is absent leaves the zero value.
Decode(b) ==
    User(IF "id" \in b.keys THEN b.id ELSE ZeroUser.ID,
         IF "name" \in b.keys THEN b.name ELSE ZeroUser.Name,
         IF "email" \in b.keys THEN b.email ELSE ZeroUser.Email)

\* the payloads Decode produces from the object bodies
Payloads == {Decode(b) : b \in ObjectBodies}

\* json.NewEncoder(w).Encode(users): a JSON array, one object per element,
\* keyed by the json tags of User, in slice order.
EncodeUser(x) == [id |-> x.ID, name |-> x.Name, email |-> x.Email]
Encode(xs) == [i \in 1..Len(xs) |-> EncodeUser(xs[i])]

\* faulty variant: an empty slice is not encoded
EncodeFails_OnEmpty(xs) == Len(xs) = 0

\* The error of Encode: marshalling fails on values JSON cannot express
\* (channels, functions, NaN, cycles); the fields of User are an int and two
\* strings, which always marshal, so no slice of User makes it fail.
EncodeFails(xs) == FALSE

\* The JSON document Encode writes for a slice: a nil slice is written as
\* null, any other slice as an array.
JSONKind(isNil) == IF isNil THEN "null" ELSE "array"

VARIABLES
    users,          \* var users = []User{}
    pc,             \* pc[h]: where handler goroutine h stands
    u,              \* u[h]: the local `u` of createUserHandler / insertUser
    s,              \* s[h]: the slice value append() read from `users`
    w,              \* w[h]: the response written to http.ResponseWriter
    created,        \* history: the records of the successful inserts, in order
    usersAtStart,   \* history: `users` when request h was received
    prePost,        \* history: the complete values of `users` (before or after
                    \* each append in flight) when List h read the slice
    prev,           \* history, one request at a time: the status answered to
                    \* the request before the current one (0: there was none)
    usersNil,       \* whether `users` is the nil slice
    route,          \* route[h]: the route of the request h serves
    payload,        \* payload[h]: the local `payload` of createUserHandler
    streak          \* history, one request at a time: how many requests in a
                    \* row, just before the current one, were answered with
                    \* an error (counted up to MaxStreak)

vars == <<users, pc, u, s, w, created, usersAtStart, prePost, prev,
          usersNil, route, payload, streak>>

\* w: the status, the plain-text body http.Error writes, the JSON array
\* Encode writes, and which JSON document ("" for none) was written
NoResponse == [status |-> 0, text |-> "", list |-> <<>>, json |-> ""]
Respond(st, txt, l) == [status |-> st, text |-> txt, list |-> l, json |-> ""]
RespondJSON(st, isNil, l) ==
    [status |-> st, text |-> "", list |-> l, json |-> JSONKind(isNil)]

RouteList == "GET /users"
RouteCreate == "POST /users"

Init ==
    /\ users = <<>>
    /\ pc = [h \in Handlers |-> "idle"]
    /\ u = [h \in Handlers |-> ZeroUser]
    /\ s = [h \in Handlers |-> <<>>]
    /\ w = [h \in Handlers |-> NoResponse]
    /\ created = <<>>
    /\ usersAtStart = [h \in Handlers |-> <<>>]
    /\ prePost = [h \in Handlers |-> {}]
    /\ prev = 0
    /\ usersNil = FALSE
    /\ route = [h \in Handlers |-> ""]
    /\ payload = [h \in Handlers |-> ZeroUser]
    /\ streak = 0

\* ------------------------------------------------- reads of the shared slice
\* handlers that are inside `users = append(users, u)`: they have read the
\* slice and have not yet stored the result
InFlight == {h \in Handlers : pc[h] = "appending"}

\* What a reader finds in the slot an append in flight is writing: the
\* element is stored field by field with no happens-before edge to the
\* reader, so every field is either still zero or already written.
TornUsers(x) ==
    {User(i, n, e) : i \in {ZeroUser.ID, x.ID}, n \in {ZeroUser.Name, x.Name},
                     e \in {ZeroUser.Email, x.Email}}

\* Values a read of the slice header (len(users), the operand of append)
\* can return: the stored value, or the value an append in flight is storing.
HeaderViews == {users} \cup {Append(s[h], u[h]) : h \in InFlight}

\* Values a read of the slice with its elements (range, Encode) can return.
ElementViews ==
    {users} \cup UNION {{Append(s[h], t) : t \in TornUsers(u[h])} : h \in InFlight}

\* ------------------------------------------------------ createUserHandler
\* faulty variants of the id computation
NewID_Constant(view) == 1
NewID_OffByOne(view) == Len(view)
NewID_FromTwo(view) == Len(view) + 2

\* ID: len(users) + 1
NewID(view) == Len(view) + 1

\* insertUser, the checks: the error message, or "" for nil
ErrEmailRequired == "email is required"
ErrNameRequired == "name is required"
ErrEmailExists == "email already exists"

\* faulty variant: the duplicate-email loop is missing
Validate_NoDuplicateCheck(x, view) ==
    IF x.Email = "" THEN ErrEmailRequired
    ELSE IF x.Name = "" THEN ErrNameRequired
    ELSE ""

\* faulty variant: the name is checked before the email
Validate_NameFirst(x, view) ==
    IF x.Name = "" THEN ErrNameRequired
    ELSE IF x.Email = "" THEN ErrEmailRequired
    ELSE IF \E i \in 1..Len(view) : view[i].Email = x.Email THEN ErrEmailExists
    ELSE ""

\* faulty variant: the name is not checked
Validate_NoNameCheck(x, view) ==
    IF x.Email = "" THEN ErrEmailRequired
    ELSE IF \E i \in 1..Len(view) : view[i].Email = x.Email THEN ErrEmailExists
    ELSE ""

\* faulty variant: emails are compared without regard to letter case
Lower(e) == IF e = "A@b.com" THEN "a@b.com" ELSE e
Validate_CaseInsensitive(x, view) ==
    IF x.Email = "" THEN ErrEmailRequired
    ELSE IF x.Name = "" THEN ErrNameRequired
    ELSE IF \E i \in 1..Len(view) : Lower(view[i].Email) = Lower(x.Email)
         THEN ErrEmailExists
    ELSE ""

Validate(x, view) ==
    IF x.Email = "" THEN ErrEmailRequired
    ELSE IF x.Name = "" THEN ErrNameRequired
    ELSE IF \E i \in 1..Len(view) : view[i].Email = x.Email THEN ErrEmailExists
    ELSE ""

\* faulty variants of the append
AppendUser_Prepend(xs, x) == <<x>> \o xs
AppendUser_Overwrite(xs, x) == <<x>>
AppendUser_ReplaceLast(xs, x) ==
    IF Len(xs) = 0 THEN <<x>> ELSE [xs EXCEPT ![Len(xs)] = x]

\* append(users, u)
AppendUser(xs, x) == Append(xs, x)

Ready(h) == pc[h] \in {"idle", "done"}
Quiet == \A h \in Handlers : Ready(h)
ActiveCreates == {h \in Handlers : pc[h] \in {"built", "append", "appending"}}
Room == Len(users) + Cardinality(ActiveCreates) < MaxUsers

\* faulty variant: the return after http.Error is missing, insertUser runs
\* on the zero payload
CreateDecodeError_NoReturn(h) ==
    /\ Ready(h)
    /\ \E b \in MalformedBodies : TRUE
    /\ pc' = [pc EXCEPT ![h] = "done"]
    /\ u' = [u EXCEPT ![h] = ZeroUser]
    /\ s' = [s EXCEPT ![h] = <<>>]
    /\ w' = [w EXCEPT ![h] = Respond(StatusBadRequest, Validate(ZeroUser, users), <<>>)]
    /\ usersAtStart' = [usersAtStart EXCEPT ![h] = users]
    /\ prePost' = [prePost EXCEPT ![h] = {}]
    /\ route' = [route EXCEPT ![h] = RouteCreate]
    /\ payload' = [payload EXCEPT ![h] = ZeroUser]
    /\ UNCHANGED <<users, created, usersNil>>

\* POST /users with a body Decode rejects: 400, nothing else runs
CreateDecodeError(h) ==
    /\ Ready(h)
    /\ \E b \in MalformedBodies : TRUE
    /\ pc' = [pc EXCEPT ![h] = "done"]
    /\ u' = [u EXCEPT ![h] = ZeroUser]
    /\ s' = [s EXCEPT ![h] = <<>>]
    /\ w' = [w EXCEPT ![h] = Respond(StatusBadRequest, "invalid JSON", <<>>)]
    /\ usersAtStart' = [usersAtStart EXCEPT ![h] = users]
    /\ prePost' = [prePost EXCEPT ![h] = {}]
    /\ route' = [route EXCEPT ![h] = RouteCreate]
    /\ payload' = [payload EXCEPT ![h] = ZeroUser]
    /\ UNCHANGED <<users, created, usersNil>>

\* faulty variant: an id in the body is kept
CreateBegin_KeepsClientID(h) ==
    /\ Ready(h)
    /\ \E p \in Payloads, view \in HeaderViews :
         /\ payload' = [payload EXCEPT ![h] = p]
         /\ u' = [u EXCEPT ![h] =
                    User(IF p.ID # 0 THEN p.ID ELSE NewID(view), p.Name, p.Email)]
    /\ pc' = [pc EXCEPT ![h] = "built"]
    /\ s' = [s EXCEPT ![h] = <<>>]
    /\ w' = [w EXCEPT ![h] = NoResponse]
    /\ usersAtStart' = [usersAtStart EXCEPT ![h] = users]
    /\ prePost' = [prePost EXCEPT ![h] = {}]
    /\ route' = [route EXCEPT ![h] = RouteCreate]
    /\ UNCHANGED <<users, created, usersNil>>

\* POST /users: decode the body and build u with ID len(users)+1
CreateBegin(h) ==
    /\ Ready(h)
    /\ \E p \in Payloads, view \in HeaderViews :
         /\ payload' = [payload EXCEPT ![h] = p]
         /\ u' = [u EXCEPT ![h] = User(NewID(view), p.Name, p.Email)]
    /\ pc' = [pc EXCEPT ![h] = "built"]
    /\ s' = [s EXCEPT ![h] = <<>>]
    /\ w' = [w EXCEPT ![h] = NoResponse]
    /\ usersAtStart' = [usersAtStart EXCEPT ![h] = users]
    /\ prePost' = [prePost EXCEPT ![h] = {}]
    /\ route' = [route EXCEPT ![h] = RouteCreate]
    /\ UNCHANGED <<users, created, usersNil>>

\* faulty variant: the record is appended before the checks run
InsertUserReject_AppendFirst(h) ==
    /\ pc[h] = "built"
    /\ \E view \in ElementViews :
         /\ Validate(u[h], view) # ""
         /\ w' = [w EXCEPT ![h] = Respond(StatusBadRequest, Validate(u[h], view), <<>>)]
    /\ users' = Append(users, u[h])
    /\ pc' = [pc EXCEPT ![h] = "done"]
    /\ UNCHANGED <<u, s, created, usersAtStart, prePost, usersNil, route, payload>>

\* insertUser returns an error: 400 with the message
InsertUserReject(h) ==
    /\ pc[h] = "built"
    /\ \E view \in ElementViews :
         /\ Validate(u[h], view) # ""
         /\ w' = [w EXCEPT ![h] = Respond(StatusBadRequest, Validate(u[h], view), <<>>)]
    /\ pc' = [pc EXCEPT ![h] = "done"]
    /\ UNCHANGED <<users, u, s, created, usersAtStart, prePost,
                   usersNil, route, payload>>

\* insertUser passes its checks and reaches the append
InsertUserPass(h) ==
    /\ pc[h] = "built"
    /\ \E view \in ElementViews : Validate(u[h], view) = ""
    /\ pc' = [pc EXCEPT ![h] = "append"]
    /\ UNCHANGED <<users, u, s, w, created, usersAtStart, prePost,
                   usersNil, route, payload>>

\* users = append(users, u): read the operand
AppendRead(h) ==
    /\ pc[h] = "append"
    /\ \E view \in HeaderViews : s' = [s EXCEPT ![h] = view]
    /\ pc' = [pc EXCEPT ![h] = "appending"]
    /\ UNCHANGED <<users, u, w, created, usersAtStart, prePost,
                   usersNil, route, payload>>

\* faulty variant: w.WriteHeader(http.StatusCreated) is missing, the server
\* answers its default 200
AppendWrite_NoWriteHeader(h) ==
    /\ pc[h] = "appending"
    /\ users' = AppendUser(s[h], u[h])
    /\ usersNil' = FALSE
    /\ created' = Append(created, u[h])
    /\ w' = [w EXCEPT ![h] = Respond(StatusOK, "", <<>>)]
    /\ pc' = [pc EXCEPT ![h] = "done"]
    /\ UNCHANGED <<u, s, usersAtStart, prePost, route, payload>>

\* users = append(users, u): store the result; insertUser returns nil; 201
AppendWrite(h) ==
    /\ pc[h] = "appending"
    /\ users' = AppendUser(s[h], u[h])
    /\ usersNil' = FALSE
    /\ created' = Append(created, u[h])
    /\ w' = [w EXCEPT ![h] = Respond(StatusCreated, "", <<>>)]
    /\ pc' = [pc EXCEPT ![h] = "done"]
    /\ UNCHANGED <<u, s, usersAtStart, prePost, route, payload>>

\* -------------------------------------------------------- getUsersHandler
\* GET /users received: the Content-Type header is set
ListBegin(h) ==
    /\ Ready(h)
    /\ pc' = [pc EXCEPT ![h] = "encoding"]
    /\ u' = [u EXCEPT ![h] = ZeroUser]
    /\ s' = [s EXCEPT ![h] = <<>>]
    /\ w' = [w EXCEPT ![h] = NoResponse]
    /\ usersAtStart' = [usersAtStart EXCEPT ![h] = users]
    /\ prePost' = [prePost EXCEPT ![h] = {}]
    /\ route' = [route EXCEPT ![h] = RouteList]
    /\ payload' = [payload EXCEPT ![h] = ZeroUser]
    /\ UNCHANGED <<users, created, usersNil>>

\* json.NewEncoder(w).Encode(users): the first write answers 200; an error
\* of Encode is answered with http.Error and 500
ListEncode(h) ==
    /\ pc[h] = "encoding"
    /\ \E view \in ElementViews :
         w' = [w EXCEPT ![h] =
                 IF EncodeFails(view)
                 THEN Respond(StatusInternalServerError, "encode error", <<>>)
                 ELSE RespondJSON(StatusOK, usersNil /\ Len(view) = 0,
                                  Encode(view))]
    /\ prePost' = [prePost EXCEPT ![h] = HeaderViews]
    /\ pc' = [pc EXCEPT ![h] = "done"]
    /\ UNCHANGED <<users, u, s, created, usersAtStart, usersNil, route, payload>>

\* ------------------------------------------------------------ the server
\* one request at a time: a single goroutine serves them all, the next
\* request is received when the previous one has been answered
Serial == CHOOSE h \in Handlers : \A g \in Handlers : h <= g
\* the histories of the request that has just been answered
Answered ==
    /\ prev' = w[Serial].status
    /\ streak' = IF w[Serial].status >= StatusBadRequest
                 THEN Min(streak + 1, MaxStreak) ELSE 0
SeqCreateDecodeError == Quiet /\ CreateDecodeError(Serial) /\ Answered
SeqCreateBegin == Quiet /\ CreateBegin(Serial) /\ Answered
SeqListBegin == Quiet /\ ListBegin(Serial) /\ Answered
\* a goroutine per request
ConcCreateDecodeError ==
    \E h \in Handlers : CreateDecodeError(h) /\ UNCHANGED <<prev, streak>>
ConcCreateBegin ==
    \E h \in Handlers : Room /\ CreateBegin(h) /\ UNCHANGED <<prev, streak>>
ConcListBegin ==
    \E h \in Handlers : ListBegin(h) /\ UNCHANGED <<prev, streak>>
\* the steps of a running handler
StepInsertUserReject ==
    \E h \in Handlers : InsertUserReject(h) /\ UNCHANGED <<prev, streak>>
StepInsertUserPass ==
    \E h \in Handlers : InsertUserPass(h) /\ UNCHANGED <<prev, streak>>
StepAppendRead ==
    \E h \in Handlers : AppendRead(h) /\ UNCHANGED <<prev, streak>>
StepAppendWrite ==
    \E h \in Handlers : AppendWrite(h) /\ UNCHANGED <<prev, streak>>
StepListEncode ==
    \E h \in Handlers : ListEncode(h) /\ UNCHANGED <<prev, streak>>

Next ==
    \/ SeqCreateDecodeError
    \/ SeqCreateBegin
    \/ SeqListBegin
    \/ StepInsertUserReject
    \/ StepInsertUserPass
    \/ StepAppendRead
    \/ StepAppendWrite
    \/ StepListEncode

NextConc ==
    \/ ConcCreateDecodeError
    \/ ConcCreateBegin
    \/ ConcListBegin
    \/ StepInsertUserReject
    \/ StepInsertUserPass
    \/ StepAppendRead
    \/ StepAppendWrite
    \/ StepListEncode

Spec == Init /\ [][Next]_vars
SpecConc == Init /\ [][NextConc]_vars

\* ------------------------------------------------------------- properties
\* a handler that has answered a POST whose body decoded
CreateAnswered(h) == pc[h] = "done" /\ u[h] # ZeroUser
\* a handler that has answered a GET
ListAnswered(h) == pc[h] = "done" /\ w[h].status = StatusOK
\* the steps that end a call
CreateFails(h) == pc[h] = "built" /\ pc'[h] = "done"
CreateSucceeds(h) == pc[h] = "appending" /\ pc'[h] = "done"
ListReturns(h) == pc[h] = "encoding" /\ pc'[h] = "done"
Stored(e, xs) == \E i \in 1..Len(xs) : xs[i].Email = e
\* positions of a listed JSON object with the name and email of record x
Listed(x, l) == {k \in 1..Len(l) : l[k].name = x.Name /\ l[k].email = x.Email}

\* C1: with the Create calls handled one after the other, no two stored
\* records have the same email.
C1_UniqueEmails ==
    \A i, j \in 1..Len(users) : i # j => users[i].Email # users[j].Email

C1_Witness ==
    /\ Len(users) >= 2
    /\ \E h \in Handlers : CreateAnswered(h) /\ w[h].text = ErrEmailExists

\* C2: the id of every successful Create is strictly greater than the id of
\* every earlier successful Create (requests handled one after the other).
C2_IdsIncrease ==
    \A i, j \in 1..Len(created) : i < j => created[i].ID < created[j].ID

\* the third successful Create, right after a request that failed
C2_Witness ==
    /\ Len(created) = 3
    /\ prev = StatusBadRequest
    /\ \E h \in Handlers : CreateAnswered(h) /\ w[h].status = StatusCreated

\* C3: with handlers interleaving, no two stored records have the same id.
C3_UniqueIdsConcurrent ==
    \A i, j \in 1..Len(users) : i # j => users[i].ID # users[j].ID

\* C4: with handlers interleaving, no email is stored by two successful
\* Creates: the successful inserts, and so the stored records, have pairwise
\* distinct emails.
C4_AtomicCreate ==
    /\ \A i, j \in 1..Len(created) : i # j => created[i].Email # created[j].Email
    /\ \A i, j \in 1..Len(users) : i < j => users[i].Email # users[j].Email

\* C5: when a Create call fails validation, `users` after the call is the
\* sequence it was when the call began.
C5_FailureLeavesUsers ==
    [][\A h \in Handlers : CreateFails(h) => users' = usersAtStart[h]]_vars

C5_Witness ==
    \E h \in Handlers :
        /\ CreateAnswered(h) /\ w[h].text = ErrEmailExists
        /\ usersAtStart[h] = users /\ Len(users) >= 1

\* C6: the answer of a Create is decided by the first failing check, in the
\* order email empty, name empty, email stored; with none failing it is 201.
C6_ValidationOrder ==
    \A h \in Handlers : CreateAnswered(h) =>
        IF u[h].Email = ""
        THEN w[h].status = StatusBadRequest /\ w[h].text = "email is required"
        ELSE IF u[h].Name = ""
        THEN w[h].status = StatusBadRequest /\ w[h].text = "name is required"
        ELSE IF Stored(u[h].Email, usersAtStart[h])
        THEN w[h].status = StatusBadRequest /\ w[h].text = "email already exists"
        ELSE w[h].status = StatusCreated /\ w[h].text = ""

\* an empty name with an email that is already stored
C6_Witness ==
    \E h \in Handlers :
        /\ CreateAnswered(h) /\ u[h].Name = ""
        /\ Stored(u[h].Email, usersAtStart[h])
        /\ w[h].text = ErrNameRequired

\* C7: whenever a List returns, each record of an earlier successful Create
\* is listed exactly once under its name and email.
C7_ListHasEachCreateOnce ==
    [][\A h \in Handlers : ListReturns(h) =>
         \A i \in 1..Len(created) :
             Cardinality(Listed(created[i], w'[h].list)) = 1]_vars

\* a List of two records, right after a request that failed
C7_Witness ==
    /\ prev = StatusBadRequest
    /\ \E h \in Handlers :
         ListAnswered(h) /\ Len(w[h].list) = 2 /\ Len(created) = 2

\* C8: with handlers interleaving, a List returns `users` as it is before or
\* as it is after each Create that is running, never anything else.
C8_ListSeesPreOrPost ==
    \A h \in Handlers : ListAnswered(h) =>
        \E v \in prePost[h] : w[h].list = Encode(v)

\* C9: a successful Create stores exactly its record, with id = number of
\* records before the call + 1, at the end; the first three stored ids are
\* 1, 2, 3.
C9_IdIsCountPlusOne ==
    /\ [][\A h \in Handlers : CreateSucceeds(h) =>
            users' = Append(usersAtStart[h],
                            User(Len(usersAtStart[h]) + 1, u[h].Name, u[h].Email))]_vars
    /\ [](\A i \in 1..Len(users) : i <= 3 => users[i].ID = i)

C9_Witness ==
    /\ Len(users) = 3
    /\ \E h \in Handlers : CreateAnswered(h) /\ w[h].status = StatusCreated

\* C10: a List returns the records in the order their Creates succeeded: of
\* two records, the one created earlier is listed at the smaller position.
C10_ListInCreationOrder ==
    [][\A h \in Handlers : ListReturns(h) =>
         \A i, j \in 1..Len(created) : i < j =>
             \E a, b \in 1..Len(w'[h].list) :
                 /\ a < b
                 /\ w'[h].list[a] = EncodeUser(created[i])
                 /\ w'[h].list[b] = EncodeUser(created[j])]_vars

C10_Witness ==
    \E h \in Handlers : ListAnswered(h) /\ Len(w[h].list) = 3 /\ Len(created) = 3

\* the steps by which a request is received
Received(h) == Ready(h) /\ pc'[h] # pc[h]
IsPrefix(xs, ys) == Len(xs) <= Len(ys) /\ \A i \in 1..Len(xs) : ys[i] = xs[i]

\* C11: the collection is append-only: every step of every request (List,
\* successful Create, failed Create, malformed body) leaves the records
\* stored so far in place and unchanged, so `users` before the step is a
\* prefix of `users` after it.
C11_AppendOnly == [][IsPrefix(users, users')]_vars

\* three records stored, after a failed request, and a List answered
C11_Witness ==
    /\ Len(users) = 3
    /\ streak >= 1
    /\ \E h \in Handlers : pc[h] = "done" /\ route[h] = RouteList

\* a handler that has answered a GET /users
ListDone(h) == pc[h] = "done" /\ route[h] = RouteList
ValidationErrors == {ErrEmailRequired, ErrNameRequired, ErrEmailExists}

\* C12: a POST whose body decodes is answered 201 with no body exactly when
\* insertUser stored the record, and 400 with insertUser's error message
\* exactly when it stored nothing; no other status is produced.
C12_CreateStatus ==
    \A h \in Handlers : CreateAnswered(h) =>
        /\ w[h].status \in {StatusCreated, StatusBadRequest}
        /\ w[h].status = StatusCreated <=> users = Append(usersAtStart[h], u[h])
        /\ w[h].status = StatusCreated =>
               w[h].text = "" /\ w[h].json = "" /\ w[h].list = <<>>
        /\ w[h].status = StatusBadRequest <=> users = usersAtStart[h]
        /\ w[h].status = StatusBadRequest =>
               w[h].text \in ValidationErrors /\ w[h].json = ""

\* a 201, right after a 400
C12_Witness ==
    /\ prev = StatusBadRequest
    /\ \E h \in Handlers :
         CreateAnswered(h) /\ w[h].status = StatusCreated /\ Len(usersAtStart[h]) >= 1

C14_ListNeverFails ==
    \A h \in Handlers : ListDone(h) =>
        /\ w[h].status = StatusOK
        /\ w[h].json = "array"
        /\ Len(w[h].list) = Len(users)
        /\ \A i \in 1..Len(users) :
               /\ w[h].list[i].id = users[i].ID
               /\ w[h].list[i].name = users[i].Name
               /\ w[h].list[i].email = users[i].Email
        /\ users = usersAtStart[h]

\* the List of the initial, empty collection
C14_Witness ==
    \E h \in Handlers :
        ListDone(h) /\ created = <<>> /\ users = <<>> /\ w[h].list = <<>>

\* C15: the answer of a Create and the record it stores, id included, are
\* determined by `users` before the call and the name and email of the
\* payload; the id of the payload has no part in them.
C15_ClientIdIgnored ==
    \A h \in Handlers : CreateAnswered(h) =>
        LET before == usersAtStart[h]
            n == payload[h].Name
            e == payload[h].Email
        IN  IF n # "" /\ e # "" /\ ~Stored(e, before)
            THEN /\ w[h].status = StatusCreated
                 /\ users = Append(before, User(Len(before) + 1, n, e))
            ELSE /\ w[h].status = StatusBadRequest
                 /\ users = before

\* a payload with an id of its own, stored under another id
C15_Witness ==
    \E h \in Handlers :
        /\ CreateAnswered(h) /\ w[h].status = StatusCreated
        /\ payload[h].ID \in ClientIDs \ {0}
        /\ users[Len(users)].ID # payload[h].ID

\* C16: with a non-empty name and email, a Create is rejected with "email
\* already exists" exactly when a stored record has the identical email
\* string, and succeeds exactly when no stored record has it.
C16_ExactEmailMatch ==
    \A h \in Handlers :
        (CreateAnswered(h) /\ u[h].Name # "" /\ u[h].Email # "") =>
            /\ w[h].text = "email already exists" <=>
                   \E i \in 1..Len(usersAtStart[h]) :
                       usersAtStart[h][i].Email = u[h].Email
            /\ w[h].status = StatusCreated <=>
                   \A i \in 1..Len(usersAtStart[h]) :
                       usersAtStart[h][i].Email # u[h].Email

\* two stored emails that differ in letter case only
C16_Witness ==
    /\ \E i, j \in 1..Len(users) :
           users[i].Email = "a@b.com" /\ users[j].Email = "A@b.com"
    /\ \E h \in Handlers : CreateAnswered(h) /\ w[h].status = StatusCreated

\* C17: after failed requests, a Create with a non-empty name and a
\* non-empty email that no successful Create has stored does not fail, and
\* a List is answered 200 with the records of the successful Creates.
C17_FailuresNotSticky ==
    /\ [][\A h \in Handlers : (streak >= 1 /\ CreateFails(h)) =>
            \/ u[h].Name = ""
            \/ u[h].Email = ""
            \/ Stored(u[h].Email, created)]_vars
    /\ [][\A h \in Handlers : (streak >= 1 /\ ListReturns(h)) =>
            /\ w'[h].status = StatusOK
            /\ w'[h].list = Encode(created)]_vars

\* a successful Create after MaxStreak failed requests in a row
C17_Witness ==
    /\ streak = MaxStreak
    /\ \E h \in Handlers : CreateAnswered(h) /\ w[h].status = StatusCreated

\* C18: every stored record has a non-empty name and a non-empty email.
C18_StoredFieldsNonEmpty ==
    \A i \in 1..Len(users) : users[i].Name # "" /\ users[i].Email # ""

C18_Witness ==
    /\ Len(users) >= 1
    /\ \E h \in Handlers : CreateAnswered(h) /\ w[h].text = ErrNameRequired

\* C19: with requests handled one at a time, the record at position i has
\* id i: the stored ids are exactly 1..n.
C19_DenseIds ==
    \A i \in 1..Len(users) : users[i].ID = i

C19_Witness ==
    Len(users) = 3 /\ users[3].ID = 3 /\ streak >= 1

\* C20: with handlers interleaving, when every request has been answered
\* the stored records are as many as the requests answered 201, and the
\* record of each of them is stored.
C20_NoLostCreate ==
    Quiet =>
        /\ Len(users) = Len(created)
        /\ \A i \in 1..Len(created) :
               \E k \in 1..Len(users) : users[k] = created[i]

====
